---- MODULE Spec2Model ----
(***************************************************************************)
(* Model of the adafruit-mpr121 driver (src/lib.rs).                       *)
(*                                                                         *)
(* Two specifications share the variables:                                 *)
(*   Spec        the device half: Mpr121::new, reset, reset_with_thresholds*)
(*               and touch_status, one step per transport operation, with  *)
(*               the transport free to fail at every operation;            *)
(*   SpecStatus  the value half: Mpr121TouchStatus and its iterator.       *)
(* The bus transport (i2cdev) and the chip are the environment: a         *)
(* transport operation succeeds or fails with an error code, and the chip  *)
(* is either an MPR121 whose soft reset restores the register defaults or  *)
(* some other device that answers reads with arbitrary bytes.              *)
(***************************************************************************)
EXTENDS Integers, Sequences, FiniteSets, TLC

\* ------------------------------------------------------------------------
\* Program constants (lib.rs:40-84)
MPR121_TOUCH_THRESHOLD_DEFAULT == 12
MPR121_RELEASE_THRESHOLD_DEFAULT == 6
REG_TOUCHSTATUS_L == 0
REG_MHDR == 43
REG_NHDR == 44
REG_NCLR == 45
REG_FDLR == 46
REG_MHDF == 47
REG_NHDF == 48
REG_NCLF == 49
REG_FDLF == 50
REG_NHDT == 51
REG_NCLT == 52
REG_FDLT == 53
REG_TOUCHTH_0 == 65
REG_RELEASETH_0 == 66
REG_DEBOUNCE == 91
REG_CONFIG1 == 92
REG_CONFIG2 == 93
REG_ECR == 94
REG_SOFTRESET == 128

\* ------------------------------------------------------------------------
\* Input sets of the model
\* threshold arguments tried for reset_with_thresholds (u8)
ThresholdValues == {0, 6, 12, 255}
\* error codes the transport can report (LinuxI2CError values)
TransportErrors == {"EIO", "ENXIO"}
\* the byte domain
U8 == 0..255
\* raw words the touch-status register is read as (u16): the two patterns of
\* the unit test, single bits, all channels, and values with reserved bits
StatusValues == {0, 1, 2048, 2730, 1365, 4095, 4096, 32768, 61440, 64170, 65535}
\* channel arguments tried for touched() (u8)
ChannelValues == {0, 1, 11, 12, 13, 15, 16, 28, 255}
\* the iterators a caller holds over one status value
IterIds == {"a", "b"}
\* most next() calls made on one iterator
MaxNext == 14
\* most next() calls made on the iterator that is driven past 255 calls
MaxNextLong == 260
\* the callers that use the one device, in turn
Callers == {"c1", "c2"}

VARIABLES overflowChecks, chip, entryRegs, regs, pc, entry, caller, touch, release, i, k, trace,
          result, status, iters, q

devVars == <<chip, entryRegs, regs, pc, entry, caller, touch, release, i, k, trace, result>>
tsVars == <<status, iters, q>>
vars == <<overflowChecks, chip, entryRegs, regs, pc, entry, caller, touch, release, i, k, trace,
          result, status, iters, q>>

\* ------------------------------------------------------------------------
\* Rust values
Panic == -1
OkUnit == [tag |-> "Ok"]
Err(e) == [tag |-> "Err", err |-> e]
OkStatus(v) == [tag |-> "Ok", status |-> v]
Panicked(msg) == [tag |-> "panic", msg |-> msg]
NoResult == [tag |-> "none"]
Some(b) == [tag |-> "Some", val |-> b]
None == [tag |-> "None"]
Ret(b) == [tag |-> "ret", val |-> b]
PanicV == [tag |-> "panic"]

\* u8 addition: a build with overflow checks panics, one without wraps
AddU8(a, b) ==
  IF a + b > 255 THEN (IF overflowChecks THEN Panic ELSE (a + b) % 256)
  ELSE a + b

\* u8 subtraction, likewise
SubU8(a, b) ==
  IF a - b < 0 THEN (IF overflowChecks THEN Panic ELSE (a - b) % 256)
  ELSE a - b

\* u16 >> n: a shift of 16 or more panics with overflow checks and
\* otherwise shifts by n mod 16
ShrU16(x, n) ==
  IF n >= 16 THEN (IF overflowChecks THEN Panic ELSE x \div (2 ^ (n % 16)))
  ELSE x \div (2 ^ n)

\* ------------------------------------------------------------------------
\* The chip
RegAddrs == (REG_MHDR..REG_FDLT) \cup (REG_TOUCHTH_0..(REG_RELEASETH_0 + 22))
            \cup {REG_DEBOUNCE, REG_CONFIG1, REG_CONFIG2, REG_ECR}

\* register file after power-on or soft reset: config2 = 0x24, config1 = 0x10
ChipDefaults ==
  [a \in RegAddrs |-> IF a = REG_CONFIG2 THEN 36
                      ELSE IF a = REG_CONFIG1 THEN 16 ELSE 0]

\* effect of a byte write that reached the chip
ChipWrite(r, addr, val) ==
  IF addr = REG_SOFTRESET THEN (IF val = 99 THEN ChipDefaults ELSE r)
  ELSE IF addr \in RegAddrs THEN [r EXCEPT ![addr] = val]
  ELSE r

\* bytes a byte read of addr can deliver
ChipReadValues(addr) ==
  IF chip = "mpr121" /\ addr \in RegAddrs THEN {regs[addr]} ELSE U8

\* ------------------------------------------------------------------------
\* Transport events, as recorded in trace
WriteEv(addr, val, res) == [op |-> "write", addr |-> addr, val |-> val, res |-> res]
ReadEv(addr, val, res) == [op |-> "read_byte", addr |-> addr, val |-> val, res |-> res]
ReadWordEv(addr, val, res) == [op |-> "read_word", addr |-> addr, val |-> val, res |-> res]
SleepEv(ms) == [op |-> "sleep", addr |-> 0, val |-> ms, res |-> "ok"]

\* the ? operator on a transport result: an error returns from the function
\* at once with that error, success continues with cont
TryAs(res, cont) ==
  cont

Try(res, cont) ==
  IF res = "ok" THEN cont
  ELSE /\ pc' = "done"
       /\ result' = Err(res)
       /\ UNCHANGED <<i, k>>

\* self.dev.smbus_write_byte_data(addr, val)?  A write that failed may or
\* may not have reached the chip.
smbus_write_byte_data(addr, val, cont) ==
  \E res \in {"ok"} \cup TransportErrors, applied \in BOOLEAN :
    /\ res = "ok" => applied
    /\ trace' = Append(trace, WriteEv(addr, val, res))
    /\ regs' = IF applied /\ chip = "mpr121" THEN ChipWrite(regs, addr, val) ELSE regs
    /\ Try(res, cont)
    /\ UNCHANGED <<overflowChecks, chip, entryRegs, entry, caller, touch, release, tsVars>>

\* ------------------------------------------------------------------------
\* Mpr121::new: opens the bus device; a process that panicked is gone, and
\* the next process opens the device again
new ==
  /\ pc \in {"unopened", "panicked"}
  /\ \E res \in {"ok"} \cup TransportErrors :
       IF res = "ok"
       THEN /\ pc' = "idle"
            /\ result' = NoResult
       ELSE /\ pc' = "unopened"
            /\ result' = Err(res)
  /\ entry' = "new"
  /\ caller' = caller
  /\ trace' = <<>>
  /\ i' = 0
  /\ k' = 0
  /\ UNCHANGED <<overflowChecks, chip, entryRegs, regs, touch, release, tsVars>>

\* &mut self: a method of the device is entered only while no other call on
\* the device is in progress
ExclusiveAs ==
  pc \notin {"unopened", "panicked"}

Exclusive ==
  pc \in {"idle", "done"}

\* entry into reset_with_thresholds(t, r); entryRegs notes what the chip's
\* config2 and ECR registers held when the call began
Enter(name, t, r) ==
  /\ Exclusive
  /\ pc' = "softreset"
  /\ entry' = name
  /\ caller' \in Callers
  /\ touch' = t
  /\ release' = r
  /\ i' = 0
  /\ k' = 0
  /\ trace' = <<>>
  /\ result' = NoResult
  /\ entryRegs' = [config2 |-> regs[REG_CONFIG2], ecr |-> regs[REG_ECR]]
  /\ UNCHANGED <<overflowChecks, chip, regs, tsVars>>

resetAs ==
  Enter("reset", MPR121_RELEASE_THRESHOLD_DEFAULT, MPR121_TOUCH_THRESHOLD_DEFAULT)

reset ==
  Enter("reset", MPR121_TOUCH_THRESHOLD_DEFAULT, MPR121_RELEASE_THRESHOLD_DEFAULT)

reset_with_thresholds ==
  \E t \in ThresholdValues, r \in ThresholdValues :
    Enter("reset_with_thresholds", t, r)

WriteSoftReset ==
  /\ pc = "softreset"
  /\ smbus_write_byte_data(REG_SOFTRESET, 99,
       pc' = "sleep" /\ UNCHANGED <<i, k, result>>)

Sleep ==
  /\ pc = "sleep"
  /\ trace' = Append(trace, SleepEv(1))
  /\ pc' = "ecr_stop"
  /\ UNCHANGED <<overflowChecks, chip, entryRegs, regs, entry, caller, touch, release, i, k, result, tsVars>>

WriteEcrStop ==
  /\ pc = "ecr_stop"
  /\ smbus_write_byte_data(REG_ECR, 0,
       pc' = "read_config2" /\ UNCHANGED <<i, k, result>>)

\* the expected-state test on the config2 readback
ConfigExpectedAs(v) ==
  TRUE

ConfigExpected(v) ==
  v = 36

\* what the call does when the readback is not the expected one
UnexpectedStateAs ==
  /\ pc' = "done"
  /\ result' = Err("UnexpectedDeviceState")

UnexpectedState ==
  /\ pc' = "panicked"
  /\ result' = Panicked("Failed to find MPR121 in expected config state!")

ReadConfig2 ==
  /\ pc = "read_config2"
  /\ \E res \in {"ok"} \cup TransportErrors :
     \E v \in (IF res = "ok" THEN ChipReadValues(REG_CONFIG2) ELSE {0}) :
       /\ trace' = Append(trace, ReadEv(REG_CONFIG2, v, res))
       /\ Try(res, IF ConfigExpected(v)
                   THEN pc' = "touchth" /\ UNCHANGED <<i, k, result>>
                   ELSE UnexpectedState /\ UNCHANGED <<i, k>>)
  /\ UNCHANGED <<overflowChecks, chip, entryRegs, regs, entry, caller, touch, release, tsVars>>

\* register addresses of channel n's thresholds
TouchThAddrAs(n) ==
  AddU8(REG_TOUCHTH_0, n)

TouchThAddr(n) ==
  AddU8(REG_TOUCHTH_0, 2 * n)

ReleaseThAddrAs(n) ==
  AddU8(REG_TOUCHTH_0, 2 * n + 2)

ReleaseThAddr(n) ==
  AddU8(REG_RELEASETH_0, 2 * n)

\* arithmetic overflow in a build that checks it
OverflowPanic ==
  /\ pc' = "panicked"
  /\ result' = Panicked("attempt to add with overflow")
  /\ UNCHANGED <<overflowChecks, chip, entryRegs, regs, entry, caller, touch, release, i, k, trace, tsVars>>

WriteTouchTh ==
  /\ pc = "touchth"
  /\ IF TouchThAddr(i) = Panic THEN OverflowPanic
     ELSE smbus_write_byte_data(TouchThAddr(i), touch,
            pc' = "releaseth" /\ UNCHANGED <<i, k, result>>)

WriteReleaseTh ==
  /\ pc = "releaseth"
  /\ IF ReleaseThAddr(i) = Panic THEN OverflowPanic
     ELSE smbus_write_byte_data(ReleaseThAddr(i), release,
            /\ i' = i + 1
            /\ pc' = IF i + 1 < 12 THEN "touchth" ELSE "tail"
            /\ k' = 1
            /\ UNCHANGED result)

TailWritesEcrFirst ==
  << <<REG_ECR, 143>>,
     <<REG_MHDR, 1>>, <<REG_NHDR, 1>>, <<REG_NCLR, 14>>, <<REG_FDLR, 0>>,
     <<REG_MHDF, 1>>, <<REG_NHDF, 5>>, <<REG_NCLF, 1>>, <<REG_FDLF, 0>>,
     <<REG_NHDT, 0>>, <<REG_NCLT, 0>>, <<REG_FDLT, 0>>,
     <<REG_DEBOUNCE, 0>>, <<REG_CONFIG1, 16>>, <<REG_CONFIG2, 32>> >>

TailWritesAs ==
  << <<REG_MHDR, 1>>, <<REG_NHDR, 1>>, <<REG_NCLR, 14>>, <<REG_FDLR, 0>>,
     <<REG_MHDF, 1>>, <<REG_NHDF, 5>>, <<REG_NCLF, 1>>, <<REG_FDLF, 0>>,
     <<REG_NHDT, 0>>, <<REG_NCLT, 0>>, <<REG_FDLT, 0>>,
     <<REG_DEBOUNCE, 0>>, <<REG_CONFIG1, 16>>, <<REG_CONFIG2, 36>>,
     <<REG_ECR, 143>> >>

\* the writes after the threshold loop, in program order
TailWrites ==
  << <<REG_MHDR, 1>>, <<REG_NHDR, 1>>, <<REG_NCLR, 14>>, <<REG_FDLR, 0>>,
     <<REG_MHDF, 1>>, <<REG_NHDF, 5>>, <<REG_NCLF, 1>>, <<REG_FDLF, 0>>,
     <<REG_NHDT, 0>>, <<REG_NCLT, 0>>, <<REG_FDLT, 0>>,
     <<REG_DEBOUNCE, 0>>, <<REG_CONFIG1, 16>>, <<REG_CONFIG2, 32>>,
     <<REG_ECR, 143>> >>

WriteTail ==
  /\ pc = "tail"
  /\ smbus_write_byte_data(TailWrites[k][1], TailWrites[k][2],
       IF k < Len(TailWrites)
       THEN pc' = "tail" /\ k' = k + 1 /\ UNCHANGED <<i, result>>
       ELSE pc' = "done" /\ result' = OkUnit /\ UNCHANGED <<i, k>>)

\* the word handed to Mpr121TouchStatus::new
WrapStatusAs(v) ==
  v % 4096

WrapStatus(v) ==
  v

touch_status ==
  /\ Exclusive
  /\ entry' = "touch_status"
  /\ caller' \in Callers
  /\ \E res \in {"ok"} \cup TransportErrors :
     \E v \in (IF res = "ok" THEN StatusValues ELSE {0}) :
       /\ trace' = <<ReadWordEv(REG_TOUCHSTATUS_L, v, res)>>
       /\ pc' = "done"
       /\ result' = IF res = "ok" THEN OkStatus(WrapStatus(v)) ELSE Err(res)
  /\ i' = 0
  /\ k' = 0
  /\ UNCHANGED <<overflowChecks, chip, entryRegs, regs, touch, release, tsVars>>

Init ==
  /\ overflowChecks \in BOOLEAN
  /\ chip \in {"mpr121", "other"}
  /\ regs = ChipDefaults
  /\ entryRegs = [config2 |-> ChipDefaults[REG_CONFIG2], ecr |-> ChipDefaults[REG_ECR]]
  /\ pc = "unopened"
  /\ entry = "none"
  /\ caller = "c1"
  /\ touch = 0
  /\ release = 0
  /\ i = 0
  /\ k = 0
  /\ trace = <<>>
  /\ result = NoResult
  /\ status = 0
  /\ iters = [id \in IterIds |-> [live |-> FALSE, count |-> 0, calls |-> 0,
                                  yielded |-> <<>>, last |-> None]]
  /\ q = [op |-> "none"]

Next ==
  \/ new
  \/ reset
  \/ reset_with_thresholds
  \/ WriteSoftReset
  \/ Sleep
  \/ WriteEcrStop
  \/ ReadConfig2
  \/ WriteTouchTh
  \/ WriteReleaseTh
  \/ WriteTail
  \/ touch_status

Spec == Init /\ [][Next]_vars

\* ------------------------------------------------------------------------
\* Mpr121TouchStatus
first == 0

last == 11

\* touched(item) on a status word
touchedAs(s, item) ==
  IF item <= 12
  THEN (IF ShrU16(s, item) = Panic THEN PanicV ELSE Ret((ShrU16(s, item) % 2) /= 0))
  ELSE Ret(FALSE)

touched(s, item) ==
  IF item <= last
  THEN (IF ShrU16(s, item) = Panic THEN PanicV ELSE Ret((ShrU16(s, item) % 2) /= 0))
  ELSE Ret(FALSE)

was_touchedAs(s) ==
  (s % 4096) > 0

was_touched(s) ==
  s > 0

\* Mpr121TouchStatusIterator::new
NewIterator == [live |-> TRUE, count |-> 0, calls |-> 0, yielded |-> <<>>, last |-> None]

\* the value next() returns once count has been incremented to c
NextItemAs(s, c) ==
  IF c <= 12
  THEN (IF touched(s, c).tag = "panic" THEN PanicV ELSE Some(touched(s, c).val))
  ELSE None

NextItem(s, c) ==
  IF c <= 12
  THEN (IF SubU8(c, 1) = Panic \/ touched(s, SubU8(c, 1)).tag = "panic"
        THEN PanicV
        ELSE Some(touched(s, SubU8(c, 1)).val))
  ELSE None

\* a panic in the value half ends the process
StatusPanic(msg) ==
  /\ pc' = "panicked"
  /\ result' = Panicked(msg)
  /\ UNCHANGED <<overflowChecks, chip, entryRegs, regs, entry, caller, touch, release, i, k, trace, status>>

Touched ==
  /\ pc = "done"
  /\ result = OkStatus(status)
  /\ \E c \in ChannelValues :
       /\ q' = [op |-> "touched", item |-> c, ret |-> touched(status, c)]
       /\ IF touched(status, c).tag = "panic"
          THEN StatusPanic("attempt to shift right with overflow") /\ UNCHANGED iters
          ELSE UNCHANGED <<overflowChecks, devVars, status, iters>>

WasTouched ==
  /\ pc = "done"
  /\ result = OkStatus(status)
  /\ q' = [op |-> "was_touched", item |-> 0, ret |-> Ret(was_touched(status))]
  /\ UNCHANGED <<overflowChecks, devVars, status, iters>>

\* Display: text is a sequence of characters
DigitChars == <<"0", "1", "2", "3", "4", "5", "6", "7", "8", "9">>

\* "{}" of a u8: its decimal digits, most significant first
RECURSIVE FmtU8(_)
FmtU8(n) ==
  IF n < 10 THEN <<DigitChars[n + 1]>>
  ELSE FmtU8(n \div 10) \o <<DigitChars[(n % 10) + 1]>>

\* "{} is {}" for channel n of the status word s
FmtEntryAs(s, n) ==
  FmtU8(n) \o <<" ", "i", "s", " ">>
  \o (IF ShrU16(s, n) /= 0 THEN <<"o", "n">> ELSE <<"o", "f", "f">>)

FmtEntry(s, n) ==
  FmtU8(n) \o <<" ", "i", "s", " ">>
  \o (IF (ShrU16(s, n) % 2) /= 0 THEN <<"o", "n">> ELSE <<"o", "f", "f">>)

\* the loop over first()..=last(), from channel n on
RECURSIVE FmtLoop(_, _)
FmtLoop(s, n) ==
  IF n > last THEN <<>>
  ELSE (IF n > 0 THEN <<",", " ">> ELSE <<>>) \o FmtEntry(s, n) \o FmtLoop(s, n + 1)

\* <Mpr121TouchStatus as Display>::fmt into a sink that takes every write
fmt(s) ==
  <<"T", "o", "u", "c", "h", " ", "s", "t", "a", "t", "u", "s", ":", " ", "[">>
  \o FmtLoop(s, first) \o <<"]">>

Display ==
  /\ pc = "done"
  /\ result = OkStatus(status)
  /\ q' = [op |-> "fmt", item |-> 0, ret |-> fmt(status)]
  /\ UNCHANGED <<overflowChecks, devVars, status, iters>>

\* Mpr121TouchStatus::iter: a new iterator, bound to the name id
iter ==
  /\ pc = "done"
  /\ result = OkStatus(status)
  /\ \E id \in IterIds :
       iters' = [iters EXCEPT ![id] = NewIterator]
  /\ UNCHANGED <<overflowChecks, devVars, status, q>>

\* the iterators after next() on iterator id set its count to c and
\* returned v; the other iterators are not touched
IterStepAs(its, id, c, v) ==
  [x \in DOMAIN its |->
     IF x = id
     THEN [its[x] EXCEPT !.count = c, !.calls = @ + 1,
                         !.yielded = IF v.tag = "Some" THEN Append(@, v.val) ELSE @,
                         !.last = v]
     ELSE [its[x] EXCEPT !.count = c]]

IterStep(its, id, c, v) ==
  [its EXCEPT ![id].count = c,
              ![id].calls = @ + 1,
              ![id].yielded = IF v.tag = "Some" THEN Append(@, v.val) ELSE @,
              ![id].last = v]

\* Iterator::next on the iterator id, which has been called fewer than
\* limit times
NextOn(id, limit) ==
  /\ iters[id].live
  /\ iters[id].calls < limit
  /\ LET c == AddU8(iters[id].count, 1)
         v == NextItem(status, c)
     IN IF c = Panic
        THEN /\ iters' = [iters EXCEPT ![id].calls = @ + 1, ![id].last = PanicV]
             /\ StatusPanic("attempt to add with overflow")
        ELSE IF v.tag = "panic"
        THEN /\ iters' = [iters EXCEPT ![id].count = c, ![id].calls = @ + 1,
                                       ![id].last = PanicV]
             /\ StatusPanic("attempt to subtract with overflow")
        ELSE /\ iters' = IterStep(iters, id, c, v)
             /\ UNCHANGED <<overflowChecks, devVars, status>>

next ==
  /\ pc = "done"
  /\ result = OkStatus(status)
  /\ \E id \in IterIds : NextOn(id, MaxNext)
  /\ UNCHANGED q

\* next() called over and over on the one iterator "a"
next_long ==
  /\ pc = "done"
  /\ result = OkStatus(status)
  /\ NextOn("a", MaxNextLong)
  /\ UNCHANGED q

\* the state in which touch_status has just returned Ok(Mpr121TouchStatus)
InitStatus ==
  /\ overflowChecks \in BOOLEAN
  /\ chip = "mpr121"
  /\ regs = ChipDefaults
  /\ entryRegs = [config2 |-> ChipDefaults[REG_CONFIG2], ecr |-> ChipDefaults[REG_ECR]]
  /\ pc = "done"
  /\ entry = "touch_status"
  /\ caller = "c1"
  /\ touch = 0
  /\ release = 0
  /\ i = 0
  /\ k = 0
  /\ status \in StatusValues
  /\ trace = <<ReadWordEv(REG_TOUCHSTATUS_L, status, "ok")>>
  /\ result = OkStatus(WrapStatus(status))
  /\ iters = [id \in IterIds |-> [live |-> FALSE, count |-> 0, calls |-> 0,
                                  yielded |-> <<>>, last |-> None]]
  /\ q = [op |-> "none"]

NextStatus ==
  \/ Touched
  \/ WasTouched
  \/ Display
  \/ iter
  \/ next

SpecStatus == InitStatus /\ [][NextStatus]_vars

\* the value half with one iterator driven past the range of its u8 counter
NextLong ==
  \/ iter
  \/ next_long

SpecLong == InitStatus /\ [][NextLong]_vars

\* ========================================================================
\* Properties
\* ========================================================================

\* the request part of a transport event: what the driver asked for,
\* without what the transport answered
Req(e) == [op |-> e.op, addr |-> e.addr, val |-> IF e.op = "write" THEN e.val ELSE 0]

Requests(tr) == [n \in 1..Len(tr) |-> Req(tr[n])]

W(a, v) == [op |-> "write", addr |-> a, val |-> v]

R(a) == [op |-> "read_byte", addr |-> a, val |-> 0]

Delay == [op |-> "sleep", addr |-> 0, val |-> 0]

Prefix(s, n) == SubSeq(s, 1, n)

InReset == entry \in {"reset", "reset_with_thresholds"}

\* no transport operation of the call so far has failed
NoFailure == \A n \in 1..Len(trace) : trace[n].res = "ok"

\* the call has read config2 successfully and got something else than 0x24
Mismatch(n) ==
  /\ trace[n].op = "read_byte"
  /\ trace[n].res = "ok"
  /\ trace[n].val /= 36

\* the reset sequence as the specification lists it, for thresholds t and r:
\* 0x80 <- 0x63, delay, 0x5E <- 0, read 0x5D, 12 x (0x41+2ch <- t, 0x42+2ch <- r),
\* 0x2B..0x35, 0x5B <- 0, 0x5C <- 0x10, 0x5D <- 0x20, 0x5E <- 0x8F
ResetOrder(t, r) ==
  << W(128, 99), Delay, W(94, 0), R(93) >>
  \o [n \in 1..24 |-> IF n % 2 = 1 THEN W(65 + (n - 1), t) ELSE W(66 + (n - 2), r)]
  \o << W(43, 1), W(44, 1), W(45, 14), W(46, 0), W(47, 1), W(48, 5), W(49, 1),
        W(50, 0), W(51, 0), W(52, 0), W(53, 0) >>
  \o << W(91, 0), W(92, 16), W(93, 32), W(94, 143) >>

\* C1: a reset_with_thresholds(t, r) call in which no transport operation
\* fails and config2 reads back 0x24 issues exactly the listed sequence
\* (41 writes, 1 read, the settle delay after the first write) for the
\* caller's t and r, in that order, nothing else, and then returns Ok(()).
C1_ExactResetSequence ==
  (InReset /\ NoFailure /\ \A n \in 1..Len(trace) : ~Mismatch(n)) =>
     /\ Len(trace) <= Len(ResetOrder(touch, release))
     /\ Requests(trace) = Prefix(ResetOrder(touch, release), Len(trace))
     /\ pc = "done" <=> Len(trace) = Len(ResetOrder(touch, release))
     /\ pc = "done" =>
          /\ result = OkUnit
          /\ Cardinality({n \in 1..Len(trace) : trace[n].op = "write"}) = 41
          /\ Cardinality({n \in 1..Len(trace) : trace[n].op = "read_byte"}) = 1
     /\ pc /= "panicked"

C1_Witness ==
  /\ entry = "reset_with_thresholds"
  /\ touch = 255
  /\ release = 0
  /\ pc = "done"
  /\ result = OkUnit
  /\ NoFailure
  /\ Len(trace) = 43
  /\ trace[4].val = 36

\* C2: in a reset, the first transport operation that fails is the last one
\* issued (nothing follows it, it is not retried) and the call returns
\* exactly that operation's error.
C2_FirstFailureAborts ==
  InReset =>
    /\ \A n \in 1..Len(trace) :
         trace[n].res /= "ok" =>
           /\ n = Len(trace)
           /\ pc = "done"
           /\ result = Err(trace[n].res)
    /\ result.tag = "Err" => (trace /= <<>> /\ trace[Len(trace)].res /= "ok")

C2_Witness ==
  /\ InReset
  /\ pc = "done"
  /\ Len(trace) = 17
  /\ trace[17].op = "write"
  /\ trace[17].res = "ENXIO"
  /\ result = Err("ENXIO")

\* C3: when the config2 readback of a reset is not 0x24 the sequence halts
\* at that read: the read is the last transport operation of the call, so no
\* threshold, filter, debounce, config or ECR write follows it.
C3_MismatchHalts ==
  InReset =>
    \A n \in 1..Len(trace) :
      Mismatch(n) =>
        /\ n = Len(trace)
        /\ pc \notin {"touchth", "releaseth", "tail"}
        /\ \A m \in 1..Len(trace) : (m > n) => trace[m].op /= "write"

C3_Witness ==
  /\ InReset
  /\ touch = 12
  /\ release = 255
  /\ Len(trace) = 4
  /\ Mismatch(4)
  /\ trace[4].val = 32

\* C4 as stated: a config2 readback other than 0x24 makes the call return an
\* error result (UnexpectedDeviceState) that is not a transport error.
C4_ReturnsUnexpectedDeviceState ==
  (InReset /\ trace /= <<>> /\ Mismatch(Len(trace))) =>
     /\ pc = "done"
     /\ result.tag = "Err"
     /\ result.err \notin TransportErrors

\* C4 amended: a config2 readback other than 0x24 makes the call panic with
\* "Failed to find MPR121 in expected config state!"; it returns nothing, so
\* the outcome is neither Ok nor any Err, and every Err the call does return
\* is the transport's.
C4_MismatchPanics ==
  InReset =>
    /\ (trace /= <<>> /\ Mismatch(Len(trace))) =>
         /\ pc = "panicked"
         /\ result = Panicked("Failed to find MPR121 in expected config state!")
    /\ result.tag = "Err" => result.err \in TransportErrors

C4_Witness ==
  /\ InReset
  /\ Len(trace) = 4
  /\ Mismatch(4)
  /\ trace[4].val = 0
  /\ pc = "panicked"
  /\ result.tag = "panic"

\* bit c of the 16-bit word v, for c in 0..15
Bit(v, c) == (v \div (2 ^ c)) % 2 = 1

\* C5: touched(c) is true iff c is in 0..11 and bit c of the status word is
\* set; for c in 12..255 it is false, with no panic, whatever bits 12-15 are.
C5_Touched ==
  /\ \A c \in U8 : touched(status, c) = Ret(c <= 11 /\ Bit(status, c))
  /\ q.op = "touched" => q.ret = Ret(q.item <= 11 /\ Bit(status, q.item))

C5_Witness ==
  /\ q.op = "touched"
  /\ q.item = 12
  /\ Bit(status, 12)
  /\ q.ret = Ret(FALSE)
  /\ pc = "done"

Min(a, b) == IF a < b THEN a ELSE b

\* C6: a fresh iterator yields exactly 12 booleans and then None; the k-th
\* (k = 0..11) is touched(k), which is bit k of the low 12 bits of the word;
\* 0b101010101010 starts with false, 0b010101010101 with true.
C6_IteratorYieldsTwelve ==
  \A id \in IterIds :
    (iters[id].live /\ iters[id].calls <= 13) =>
       /\ Len(iters[id].yielded) = Min(iters[id].calls, 12)
       /\ \A n \in 1..Len(iters[id].yielded) :
            /\ Ret(iters[id].yielded[n]) = touched(status, n - 1)
            /\ iters[id].yielded[n] = Bit(status % 4096, n - 1)
       /\ iters[id].calls \in 1..12 =>
            iters[id].last = Some(Bit(status, iters[id].calls - 1))
       /\ iters[id].calls = 13 => iters[id].last = None
       /\ (status = 2730 /\ iters[id].calls >= 12) =>
            iters[id].yielded = <<FALSE, TRUE, FALSE, TRUE, FALSE, TRUE,
                                  FALSE, TRUE, FALSE, TRUE, FALSE, TRUE>>
       /\ (status = 1365 /\ iters[id].calls >= 12) =>
            iters[id].yielded = <<TRUE, FALSE, TRUE, FALSE, TRUE, FALSE,
                                  TRUE, FALSE, TRUE, FALSE, TRUE, FALSE>>

C6_Witness ==
  /\ status = 64170
  /\ iters["a"].live
  /\ iters["a"].calls = 13
  /\ iters["a"].last = None
  /\ iters["a"].yielded = <<FALSE, TRUE, FALSE, TRUE, FALSE, TRUE,
                            FALSE, TRUE, FALSE, TRUE, FALSE, TRUE>>

C8_TouchStatusSingleRead ==
  entry = "touch_status" =>
    /\ pc = "done"
    /\ Len(trace) = 1
    /\ trace[1].op = "read_word"
    /\ trace[1].addr = 0
    /\ trace[1].res = "ok" => result = OkStatus(trace[1].val)
    /\ trace[1].res /= "ok" => result = Err(trace[1].res)

C8_Witness ==
  /\ entry = "touch_status"
  /\ trace[1].res = "ok"
  /\ trace[1].val = 65535
  /\ result = OkStatus(65535)
  /\ regs[REG_ECR] = 143

\* what a reset call has returned, as a function of what the transport has
\* answered so far
OutcomeOf(tr) ==
  IF tr /= <<>> /\ tr[Len(tr)].res /= "ok" THEN Err(tr[Len(tr)].res)
  ELSE IF tr /= <<>> /\ tr[Len(tr)].op = "read_byte" /\ tr[Len(tr)].val /= 36
       THEN Panicked("Failed to find MPR121 in expected config state!")
  ELSE IF Len(tr) = 43 THEN OkUnit
  ELSE NoResult

\* C9: reset() and reset_with_thresholds(12, 6) behave alike: in both, the
\* operations issued so far are the first ones of the sequence for
\* thresholds 12 and 6, and whether the call has ended and with what result
\* is decided by the transport's answers alone.
C9_ResetIsDefaultThresholds ==
  (entry = "reset" \/ (entry = "reset_with_thresholds" /\ touch = 12 /\ release = 6)) =>
     /\ touch = 12
     /\ release = 6
     /\ Len(trace) <= 43
     /\ Requests(trace) = Prefix(ResetOrder(12, 6), Len(trace))
     /\ result = OutcomeOf(trace)
     /\ pc \in {"done", "panicked"} <=> OutcomeOf(trace) /= NoResult

C9_Witness ==
  /\ entry = "reset"
  /\ pc = "done"
  /\ result = OkUnit
  /\ regs[REG_TOUCHTH_0] = 12
  /\ regs[REG_RELEASETH_0] = 6

\* register contents after a successful reset_with_thresholds(t, r) on a
\* chip fresh from power-on
FreshFinal(t, r) ==
  [a \in RegAddrs |->
     IF a \in 65..88 THEN (IF a % 2 = 1 THEN t ELSE r)
     ELSE IF a \in {43, 44, 47, 49} THEN 1
     ELSE IF a = 45 THEN 14
     ELSE IF a = 48 THEN 5
     ELSE IF a = 92 THEN 16
     ELSE IF a = 93 THEN 32
     ELSE IF a = 94 THEN 143
     ELSE 0]

\* C10: on an MPR121, whatever earlier resets left in the registers, a
\* reset in which no transport operation fails passes the config2 check,
\* returns Ok(()) and leaves the registers as the same call leaves them on a
\* fresh chip.
C10_ResetIdempotent ==
  (chip = "mpr121" /\ InReset /\ NoFailure) =>
     /\ pc /= "panicked"
     /\ \A n \in 1..Len(trace) : ~Mismatch(n)
     /\ pc = "done" =>
          /\ result = OkUnit
          /\ regs = FreshFinal(touch, release)

C10_Witness ==
  /\ chip = "mpr121"
  /\ InReset
  /\ entryRegs = [config2 |-> 32, ecr |-> 143]
  /\ NoFailure
  /\ pc = "done"
  /\ result = OkUnit
  /\ touch = 0
  /\ release = 255
  /\ regs = FreshFinal(0, 255)

\* a reset call is between its entry and its return
Running == pc \in {"softreset", "sleep", "ecr_stop", "read_config2", "touchth",
                   "releaseth", "tail"}

\* C11: calls on one device never interleave: while a reset is in progress
\* every step belongs to that call of that caller; the transport trace of
\* the call only grows by that call's own operations, so no touch-status
\* read and no operation of another reset falls between its first and last.
C11_CallsDoNotInterleave ==
  [][Running =>
       /\ caller' = caller
       /\ entry' = entry
       /\ touch' = touch
       /\ release' = release
       /\ Len(trace') \in {Len(trace), Len(trace) + 1}
       /\ Prefix(trace', Len(trace)) = trace
       /\ \A n \in 1..Len(trace') : trace'[n].op /= "read_word"]_vars

C11_Witness ==
  /\ caller = "c2"
  /\ entry = "reset"
  /\ pc = "tail"
  /\ k = 7
  /\ entryRegs = [config2 |-> 32, ecr |-> 143]

\* the pieces of a text between its ", " separators
RECURSIVE Entries(_)
Entries(cs) ==
  LET seps == {j \in 1..(Len(cs) - 1) : cs[j] = "," /\ cs[j + 1] = " "}
  IN IF seps = {} THEN <<cs>>
     ELSE LET j == CHOOSE x \in seps : \A y \in seps : x <= y
          IN <<SubSeq(cs, 1, j - 1)>> \o Entries(SubSeq(cs, j + 2, Len(cs)))

\* the decimal names of the channels 0..11
ChannelName ==
  << <<"0">>, <<"1">>, <<"2">>, <<"3">>, <<"4">>, <<"5">>, <<"6">>, <<"7">>,
     <<"8">>, <<"9">>, <<"1", "0">>, <<"1", "1">> >>

\* the list inside the brackets of "Touch status: [...]"
ListOf(text) == SubSeq(text, 16, Len(text) - 1)

\* C12: the rendered text is "Touch status: [" list "]" where the list has
\* exactly 12 entries separated by ", ", the entry of channel c (ascending)
\* being "c is on" iff bit c of the word is set and "c is off" otherwise;
\* words that differ only in bits 12-15 render alike.
C12_Render ==
  q.op = "fmt" =>
    /\ Prefix(q.ret, 15) = <<"T", "o", "u", "c", "h", " ", "s", "t", "a", "t",
                             "u", "s", ":", " ", "[">>
    /\ q.ret[Len(q.ret)] = "]"
    /\ Len(Entries(ListOf(q.ret))) = 12
    /\ \A c \in 0..11 :
         Entries(ListOf(q.ret))[c + 1] =
           ChannelName[c + 1] \o (IF Bit(status, c)
                                  THEN <<" ", "i", "s", " ", "o", "n">>
                                  ELSE <<" ", "i", "s", " ", "o", "f", "f">>)
    /\ q.ret = fmt(status % 4096)

C12_Witness ==
  /\ q.op = "fmt"
  /\ status = 64170
  /\ Entries(ListOf(q.ret))[1] = <<"0", " ", "i", "s", " ", "o", "f", "f">>
  /\ Entries(ListOf(q.ret))[12] = <<"1", "1", " ", "i", "s", " ", "o", "n">>

\* threshold, baseline-filter, debounce, config1 and config2 registers
ConfigAddrs == (65..88) \cup (43..53) \cup {91, 92, 93}

\* positions before n at which the call wrote to ECR
EcrWritesBefore(n) ==
  {m \in 1..(n - 1) : trace[m].op = "write" /\ trace[m].addr = 94}

\* positions at which a write to ECR succeeded
EcrWritten ==
  {m \in 1..Len(trace) : trace[m].op = "write" /\ trace[m].addr = 94
                         /\ trace[m].res = "ok"}

MaxOf(S) == CHOOSE x \in S : \A y \in S : y <= x

\* C13: in a reset every write to a threshold, filter, debounce or config
\* register comes while the latest ECR write of the call is a successful
\* 0x00; the ECR <- 0x8F write is the call's last transport operation; a
\* call that returns an error after its ECR <- 0x00 succeeded has 0x00 as the
\* last value it wrote successfully to ECR, and an MPR121 is in run mode
\* afterwards only with the complete configuration.
C13_ConfiguredInStopMode ==
  InReset =>
    /\ \A n \in 1..Len(trace) :
         (trace[n].op = "write" /\ trace[n].addr \in ConfigAddrs) =>
           /\ EcrWritesBefore(n) /= {}
           /\ trace[MaxOf(EcrWritesBefore(n))].val = 0
           /\ trace[MaxOf(EcrWritesBefore(n))].res = "ok"
    /\ \A n \in 1..Len(trace) :
         (trace[n].op = "write" /\ trace[n].addr = 94 /\ trace[n].val = 143) =>
           n = Len(trace)
    /\ (result.tag = "Err" /\ EcrWritten /= {}) =>
         trace[MaxOf(EcrWritten)].val = 0
    /\ (chip = "mpr121" /\ EcrWritten /= {} /\ regs[REG_ECR] /= 0) =>
         regs = FreshFinal(touch, release)

C13_Witness ==
  /\ InReset
  /\ chip = "mpr121"
  /\ pc = "done"
  /\ result.tag = "Err"
  /\ Len(trace) = 30
  /\ trace[3].res = "ok"
  /\ regs[REG_ECR] = 0
  /\ regs[REG_TOUCHTH_0] = 255
  /\ regs[REG_CONFIG2] = 36

\* C14 as stated: once an iterator has returned None (its 13th call), every
\* later next() returns None as well, however many calls follow, so no 13th
\* value is ever yielded and no call faults.
C14_NoneIsFinal ==
  /\ pc /= "panicked"
  /\ \A id \in IterIds :
       (iters[id].live /\ iters[id].calls >= 13) =>
          /\ iters[id].last = None
          /\ Len(iters[id].yielded) = 12

\* C15: no operation on a status value changes its word; a step changes at
\* most one iterator; an iterator made by iter() starts at channel 0 with
\* nothing yielded; and the n-th next() on an iterator (n = 1..12) yields
\* bit n-1 of the word and the 13th None, wherever the other iterators are.
C15_ImmutableRestartable ==
  [][/\ status' = status
     /\ \A id \in IterIds :
          /\ iters'[id] /= iters[id] =>
               \A o \in IterIds \ {id} : iters'[o] = iters[o]
          /\ (iters'[id] /= iters[id] /\ iters'[id].calls = 0) =>
               iters'[id] = [live |-> TRUE, count |-> 0, calls |-> 0,
                             yielded |-> <<>>, last |-> None]
          /\ (iters'[id].calls = iters[id].calls + 1 /\ iters[id].calls < 12) =>
               /\ iters'[id].last = Some(Bit(status, iters[id].calls))
               /\ iters'[id].yielded =
                    Append(iters[id].yielded, Bit(status, iters[id].calls))
          /\ (iters'[id].calls = iters[id].calls + 1 /\ iters[id].calls = 12) =>
               /\ iters'[id].last = None
               /\ iters'[id].yielded = iters[id].yielded]_vars

C15_Witness ==
  /\ status = 1365
  /\ q.op = "fmt"
  /\ iters["b"].live
  /\ iters["b"].calls = 13
  /\ iters["a"].live
  /\ iters["a"].calls = 3
  /\ iters["a"].yielded = <<TRUE, FALSE, TRUE>>
  /\ Len(iters["b"].yielded) = 12

\* the register addresses the threshold loop computes
ThresholdAddrs ==
  {TouchThAddr(n) : n \in 0..11} \cup {ReleaseThAddr(n) : n \in 0..11}

\* C16: the 24 threshold addresses 0x41+2i and 0x42+2i (i = 0..11) are
\* computed without leaving 8 bits, are pairwise distinct, are exactly
\* 0x41..0x58 and are none of the other registers the reset writes; after a
\* successful reset on an MPR121 every channel's touch register holds the
\* touch threshold and its release register the release threshold.
C16_ThresholdAddresses ==
  /\ Panic \notin ThresholdAddrs
  /\ \A a \in ThresholdAddrs : a \in 0..255
  /\ \A n \in 0..11 : TouchThAddr(n) = 65 + 2 * n /\ ReleaseThAddr(n) = 66 + 2 * n
  /\ Cardinality(ThresholdAddrs) = 24
  /\ ThresholdAddrs = 65..88
  /\ ThresholdAddrs \cap ((43..53) \cup {91, 92, 93, 94, 128}) = {}
  /\ (InReset /\ chip = "mpr121" /\ pc = "done" /\ result = OkUnit) =>
       \A ch \in 0..11 :
         /\ regs[65 + 2 * ch] = touch
         /\ regs[66 + 2 * ch] = release

C16_Witness ==
  /\ InReset
  /\ chip = "mpr121"
  /\ pc = "done"
  /\ result = OkUnit
  /\ touch = 255
  /\ release = 6
  /\ regs[87] = 255
  /\ regs[88] = 6
  /\ regs[65] = 255

====
